---- MODULE Spec2Model ----
(***************************************************************************)
(* Cart, order, stock and payment-verification core of the bookstore       *)
(* backend.  Each request handler is one atomic action (handlers run to    *)
(* completion one after the other; createOrder, which saves the product   *)
(* after every item, takes one step per item).  Money is counted in thousandths of    *)
(* a rupee so that the two-decimal rounding of the code (Math.round(x *    *)
(* 100) / 100) is a real operation on the modelled values.                 *)
(***************************************************************************)
EXTENDS Integers, Sequences, FiniteSets, TLC

(* ------------------------------ bounds -------------------------------- *)
MaxStock == 2
MaxQty == 2
MaxItems == 2
MaxOrders == 2
MaxCalls == 3
MaxCarts == 1

(* --------------------------- request domains -------------------------- *)
Products == {"p1", "p2"}
Users == {"u1", "u2"}
NoColor == "none"
NoSize == "none"
Null == "null"
\* a field that the request body leaves out
Absent == "undefined"

Role(u) == IF u = "u2" THEN "reseller" ELSE "user"

StatusEnum == {"pending", "confirmed", "processing", "shipped", "delivered", "cancelled", "refunded"}
PaymentMethods == {"razorpay", "cod"}

(* ------------------------------- money -------------------------------- *)
\* Math.round(x * 100) / 100 on a value of x thousandths
Round2(x) == ((x + 5) \div 10) * 10

\* a running total
RECURSIVE SumSeq(_)
SumSeq(numbers) == IF numbers = <<>> THEN 0 ELSE Head(numbers) + SumSeq(Tail(numbers))

VARIABLES
  now,        \* clock read by isDiscountActive
  live,       \* ids of the products that exist in the catalog
  catalog,    \* name, price and discountPercentage of the product documents
  usedCount,  \* coupon.usedCount, per coupon code
  stock,      \* product.stock
  vstock,     \* variant.stock, per (product, colorName)
  orders,     \* Order collection, in creation order
  payments,   \* Payment ledger
  carts,      \* Cart collection: user -> cart document, for the users that have one
  nextLineId, \* next _id given to a cart line
  mails,      \* sendPaymentConfirmed calls made, per order
  audit,      \* per order: stock when it was created, stock writes since, checkout of the cart
  inflight,   \* the createOrder request being processed, item by item
  db,         \* connectDB: phase, retries left, attempts made, timer, time
  procs,      \* the requests that run concurrently, each between two awaits
  calls,      \* number of requests received so far
  last        \* the last request and its response

\* the state of the request handlers
appVars ==
  <<now, live, catalog, usedCount, stock, vstock, orders, payments, carts, nextLineId,
    mails, audit, inflight, calls, last, procs>>

vars == <<appVars, db>>

(* ------------------------------ catalog ------------------------------- *)
\* a date that is not set
NoDate == -1
\* the product documents as seeded, money in thousandths of a rupee
InitialCatalog ==
  [p \in Products |->
     [name |-> IF p = "p1" THEN "Book One" ELSE "Book Two",
      price |-> IF p = "p1" THEN 500000 ELSE 19990,
      discountPercentage |-> IF p = "p1" THEN 0 ELSE 15,
      discountStartDate |-> NoDate,
      discountEndDate |-> IF p = "p1" THEN NoDate ELSE 0,
      wholesalePrice |-> IF p = "p1" THEN 400000 ELSE 0]]
ProductName(p) == catalog[p].name
Price(p) == catalog[p].price
WholesalePrice(p) == catalog[p].wholesalePrice
DiscountPercentage(p) == catalog[p].discountPercentage
DiscountStartDate(p) == catalog[p].discountStartDate
DiscountEndDate(p) == catalog[p].discountEndDate
RetailShippingCost(p) == IF p = "p1" THEN 50000 ELSE 4
WholesaleShippingCost(p) == IF p = "p1" THEN 30000 ELSE 0
\* colour variants of a product (productSchema.variants)
VariantColors(p) == IF p = "p1" THEN {"Red"} ELSE {}
VariantKeys == UNION {{<<p, c>> : c \in VariantColors(p)} : p \in Products}

(* ------------------------------- coupons ------------------------------ *)
\* the coupon documents of the Coupon collection (couponSchema)
CouponCodes == {"SAVE10", "ONLYP1", "OLD"}
CouponPercentage(code) == IF code = "ONLYP1" THEN 20 ELSE 10
CouponScope(code) == IF code = "ONLYP1" THEN "specific" ELSE "all"
ApplicableProducts(code) == IF code = "ONLYP1" THEN {"p1"} ELSE {}
MinOrderValue(code) == IF code = "ONLYP1" THEN 100000 ELSE 0
CouponIsActive(code) == TRUE
ExpirationDate(code) == IF code = "OLD" THEN 0 ELSE 9

\* String.prototype.toUpperCase on the codes a request carries
ToUpperCase(code) == IF code = "save10" THEN "SAVE10" ELSE code

\* couponSchema.methods.isValid
isValid(code, t) == CouponIsActive(code) /\ ExpirationDate(code) > t

(* --------------------------- price resolver --------------------------- *)
\* a discount that is over when its last day begins
isDiscountActiveOpenEnd(p, t) ==
  IF DiscountPercentage(p) <= 0 THEN FALSE
  ELSE IF DiscountStartDate(p) # NoDate /\ t < DiscountStartDate(p) THEN FALSE
  ELSE IF DiscountEndDate(p) # NoDate /\ t >= DiscountEndDate(p) THEN FALSE
  ELSE TRUE
\* productSchema.virtual('isDiscountActive')
isDiscountActive(p, t) ==
  IF DiscountPercentage(p) <= 0 THEN FALSE
  ELSE IF DiscountStartDate(p) # NoDate /\ t < DiscountStartDate(p) THEN FALSE
  ELSE IF DiscountEndDate(p) # NoDate /\ t > DiscountEndDate(p) THEN FALSE
  ELSE TRUE

\* productSchema.virtual('finalPrice')
finalPrice(p, t) ==
  IF isDiscountActive(p, t)
  THEN ((Price(p) * (100 - DiscountPercentage(p)) + 500) \div 1000) * 10
  ELSE Price(p)

\* productSchema.methods.getCurrentPrice
getCurrentPrice(p, userRole, t) ==
  IF userRole = "reseller"
  THEN (IF WholesalePrice(p) > 0 THEN WholesalePrice(p) ELSE Price(p))
  ELSE finalPrice(p, t)

\* productSchema.methods.getShippingCost
getShippingCost(p, userRole) ==
  IF userRole = "reseller" THEN WholesaleShippingCost(p) ELSE RetailShippingCost(p)

(* ------------------------------ responses ----------------------------- *)
NoItem == [product |-> Null, quantity |-> 0, selectedSize |-> NoSize, selectedColor |-> NoColor]
NoSignature == <<>>
NoVerify == [razorpay_order_id |-> Null, razorpay_payment_id |-> Null, razorpay_signature |-> NoSignature]

NoCouponRequest == [code |-> Null, cartTotal |-> 0, cartItems |-> <<>>]

Response(op, user, code, err, order) ==
  [op |-> op, user |-> user, code |-> code, err |-> err, order |-> order,
   item |-> NoItem, verify |-> NoVerify, status |-> Null,
   coupon |-> NoCouponRequest, discountAmount |-> 0]

NoRequest == Response("none", Null, 0, "", 0)
\* any authenticated user: these handlers do not look at who calls
Caller == "any"

Idle ==
  [active |-> FALSE, user |-> Null, items |-> <<>>, subtotal |-> 0, totalShipping |-> 0,
   stockAtStart |-> <<>>, vstockAtStart |-> <<>>, couponCode |-> Absent]

(* ----------------------------- product save --------------------------- *)
\* product.save() runs the schema validators: stock has min 0
StockValid(s) == s >= 0

(* ------------------------------ createOrder --------------------------- *)
OrderItemRequests ==
  UNION {{[product |-> p, quantity |-> q, selectedSize |-> NoSize, selectedColor |-> c] :
            q \in 1..MaxQty, c \in {NoColor} \cup VariantColors(p)} : p \in Products}

\* variant.stock = Math.max(0, variant.stock - quantity) for the matching variant
DeductVariant(vst, item) ==
  IF item.selectedColor # NoColor /\ <<item.product, item.selectedColor>> \in DOMAIN vst
  THEN [vst EXCEPT ![<<item.product, item.selectedColor>>] =
          IF @ - item.quantity < 0 THEN 0 ELSE @ - item.quantity]
  ELSE vst

\* the stock check, off by one
InsufficientStockLoose(available, quantity) == available < quantity - 1
\* if (product.stock < item.quantity) throw 'Insufficient stock'
InsufficientStock(available, quantity) == available < quantity

\* a deduction that is not kept
DeductedNothing(available, quantity) == available
\* product.stock -= item.quantity
Deducted(available, quantity) == available - quantity

\* every order has seen the catalog written to
Touch(a, changed) == [k \in DOMAIN a |-> [a[k] EXCEPT !.clean = @ /\ ~changed]]

\* req.body.couponCode of createOrder
OrderCoupons == {Absent, "save10"}

\* createOrder up to its item loop: the COD block and the empty item list
CreateOrderBegin ==
  /\ ~inflight.active
  /\ calls < MaxCalls
  /\ calls' = calls + 1
  /\ Len(orders) < MaxOrders
  /\ \E u \in Users, pm \in PaymentMethods, empty \in BOOLEAN, couponCode \in OrderCoupons :
       /\ (pm = "cod" \/ empty) => couponCode = Absent
       /\ IF pm = "cod"
          THEN /\ last' = Response("createOrder", u, 400, "CodUnavailable", 0)
               /\ UNCHANGED inflight
          ELSE IF empty
          THEN /\ last' = Response("createOrder", u, 400, "ItemsRequired", 0)
               /\ UNCHANGED inflight
          ELSE /\ inflight' = [Idle EXCEPT !.active = TRUE, !.user = u,
                                            !.stockAtStart = stock, !.vstockAtStart = vstock,
                                            !.couponCode = couponCode]
               /\ last' = Response("createOrder", u, 0, "", 0)
       /\ UNCHANGED <<db, procs, now, live, catalog, usedCount, stock, vstock, orders, payments, carts, nextLineId, mails, audit>>

\* one round of the item loop: find, check stock, price, deduct, save, snapshot
CreateOrderItem ==
  /\ inflight.active
  /\ Len(inflight.items) < MaxItems
  /\ \E item \in OrderItemRequests :
       LET p == item.product
           u == inflight.user
           failed(code, err) ==
             /\ last' = [Response("createOrder", u, code, err, 0) EXCEPT !.item = item]
             /\ inflight' = Idle
             /\ UNCHANGED <<stock, vstock, audit>>
       IN /\ IF p \notin live THEN failed(404, "ProductNotFound")
             ELSE IF InsufficientStock(stock[p], item.quantity)
             THEN failed(400, "InsufficientStock")
             ELSE
               LET unitPrice == getCurrentPrice(p, Role(u), now)
                   lineTotal == unitPrice * item.quantity
                   itemShipping == getShippingCost(p, Role(u)) * item.quantity
                   newStock == Deducted(stock[p], item.quantity)
                   line == [product |-> p, name |-> ProductName(p),
                            quantity |-> item.quantity, price |-> unitPrice,
                            selectedSize |-> item.selectedSize,
                            selectedColor |-> item.selectedColor]
               IN IF ~StockValid(newStock) THEN failed(500, "ValidationError")
                  ELSE /\ stock' = [stock EXCEPT ![p] = newStock]
                       /\ vstock' = DeductVariant(vstock, item)
                       /\ audit' = Touch(audit, TRUE)
                       /\ inflight' = [inflight EXCEPT
                                         !.items = Append(@, line),
                                         !.subtotal = @ + lineTotal,
                                         !.totalShipping = @ + itemShipping]
                       /\ last' = [Response("createOrder", u, 0, "", 0) EXCEPT !.item = item]
          /\ UNCHANGED <<db, procs, now, live, catalog, usedCount, orders, payments, carts, nextLineId, mails, calls>>

EmailDefaults == [confirmationSent |-> FALSE]
NoPaymentDetails ==
  [razorpayOrderId |-> Null, razorpayPaymentId |-> Null,
   razorpaySignature |-> NoSignature, transactionId |-> Null]

\* a final total that leaves the shipping out
OrderTotalNoShipping(subtotal, totalShipping, couponDiscount) ==
  Round2(subtotal - couponDiscount)
\* Math.round((subtotal + totalShipping - couponDiscount) * 100) / 100
OrderTotal(subtotal, totalShipping, couponDiscount) ==
  Round2(subtotal + totalShipping - couponDiscount)

\* the request's items are the lines of the cart, product by product, quantity by quantity
SameLines(cart, items) ==
  /\ Len(cart.items) = Len(items)
  /\ \A k \in 1..Len(items) : /\ cart.items[k].product = items[k].product
                               /\ cart.items[k].quantity = items[k].quantity

NewOrder(r) ==
  [user |-> r.user,
   items |-> r.items,
   paymentMethod |-> "razorpay",
   subtotal |-> r.subtotal,
   shippingCost |-> r.totalShipping,
   couponDiscount |-> 0,
   totalAmount |-> OrderTotal(r.subtotal, r.totalShipping, 0),
   status |-> "pending",
   paymentStatus |-> "pending",
   paymentDetails |-> NoPaymentDetails,
   statusHistory |-> <<>>,
   emailNotifications |-> EmailDefaults]

\* if (couponCode && userRole !== 'reseller')
CouponAttempted(couponCode, userRole) == couponCode # Absent /\ userRole # "reseller"

\* Coupon.findOne({ code, isActive: true, startDate: ..., endDate: ... }): the
\* coupon documents have no startDate and no endDate, so the query finds the
\* coupon only where the query layer drops the conditions on paths the schema
\* does not have (strictQuery)
FindOrderCoupon(couponCode, strictQuery) ==
  LET code == ToUpperCase(couponCode)
  IN IF strictQuery /\ code \in CouponCodes /\ CouponIsActive(code) THEN code ELSE Null

\* the end of createOrder: the coupon, Order.create, the cart is deleted
CreateOrderFinish ==
  /\ inflight.active
  /\ Len(inflight.items) >= 1
  /\ \E strictQuery \in BOOLEAN :
       LET u == inflight.user
           attempted == CouponAttempted(inflight.couponCode, Role(u))
           coupon == IF attempted THEN FindOrderCoupon(inflight.couponCode, strictQuery)
                     ELSE Null
           applied == coupon # Null /\ inflight.subtotal >= MinOrderValue(coupon)
       IN /\ attempted \/ strictQuery
          /\ IF applied
             THEN \* couponDiscount = coupon.discountValue, a path the coupon does not
                  \* have: usedCount is saved, the total is NaN and Order.create throws
                  /\ usedCount' = [usedCount EXCEPT ![coupon] = @ + 1]
                  /\ last' = Response("createOrder", u, 500, "ValidationError", 0)
                  /\ UNCHANGED <<orders, audit, carts>>
             ELSE /\ orders' = Append(orders, NewOrder(inflight))
                  /\ audit' = Append(audit,
                       [stockBefore |-> inflight.stockAtStart,
                        vstockBefore |-> inflight.vstockAtStart,
                        clean |-> TRUE, restores |-> 0,
                        fromCart |-> /\ u \in DOMAIN carts
                                     /\ SameLines(carts[u], inflight.items)])
                  /\ carts' = [v \in DOMAIN carts \ {u} |-> carts[v]]
                  /\ last' = Response("createOrder", u, 201, "", Len(orders) + 1)
                  /\ UNCHANGED usedCount
  /\ inflight' = Idle
  /\ UNCHANGED <<db, procs, now, live, catalog, stock, vstock, payments, nextLineId, mails, calls>>

(* ------------------------------ cancelOrder --------------------------- *)
\* the statuses that refuse a cancellation, shipped left out
ClosedStatusesShort == {"delivered", "cancelled", "refunded"}
\* ['shipped', 'delivered', 'cancelled', 'refunded'].includes(order.status)
ClosedStatuses == {"shipped", "delivered", "cancelled", "refunded"}

\* a restore that adds nothing back
RestoredNothing(available, quantity) == available
\* product.stock += item.quantity
Restored(available, quantity) == available + quantity

HistoryEntry(status, note) == [status |-> status, note |-> note]

\* variant.stock += quantity for the matching variant
RestoreVariant(vst, item) ==
  IF item.selectedColor # NoColor /\ <<item.product, item.selectedColor>> \in DOMAIN vst
  THEN [vst EXCEPT ![<<item.product, item.selectedColor>>] = @ + item.quantity]
  ELSE vst

\* the restore loop of cancelOrder: find, add back, save, item after item
RECURSIVE RestoreItems(_, _, _, _)
RestoreItems(items, i, st, vst) ==
  IF i > Len(items) THEN [err |-> "", stock |-> st, vstock |-> vst]
  ELSE
    LET item == items[i]
        p == item.product
    IN IF p \notin live THEN [err |-> "TypeError", stock |-> st, vstock |-> vst]
       ELSE IF ~StockValid(Restored(st[p], item.quantity))
       THEN [err |-> "ValidationError", stock |-> st, vstock |-> vst]
       ELSE RestoreItems(items, i + 1,
                         [st EXCEPT ![p] = Restored(@, item.quantity)],
                         RestoreVariant(vst, item))

CancelOrder ==
  /\ ~inflight.active
  /\ calls < MaxCalls
  /\ calls' = calls + 1
  /\ \E u \in Users, o \in 1..MaxOrders :
       LET unchanged == UNCHANGED <<stock, vstock, orders, audit>> IN
       /\ IF o > Len(orders)
          THEN /\ last' = Response("cancelOrder", u, 404, "OrderNotFound", o)
               /\ unchanged
          ELSE IF orders[o].user # u
          THEN /\ last' = Response("cancelOrder", u, 403, "Forbidden", o)
               /\ unchanged
          ELSE IF orders[o].status \in ClosedStatuses
          THEN /\ last' = Response("cancelOrder", u, 400, "CannotCancel", o)
               /\ unchanged
          ELSE
            LET r == RestoreItems(orders[o].items, 1, stock, vstock) IN
            /\ orders' = [orders EXCEPT
                            ![o].status = "cancelled",
                            ![o].statusHistory =
                               Append(@, HistoryEntry("cancelled", "Order cancelled by user"))]
            /\ stock' = r.stock
            /\ vstock' = r.vstock
            /\ audit' = [Touch(audit, TRUE) EXCEPT ![o].clean = audit[o].clean,
                                                   ![o].restores = @ + 1]
            /\ last' = Response("cancelOrder", u, IF r.err = "" THEN 200 ELSE 500, r.err, o)
       /\ UNCHANGED <<db, procs, now, live, catalog, usedCount, payments, carts, nextLineId, mails, inflight>>

(* --------------------------- updateOrderStatus ------------------------ *)
StatusInputs == StatusEnum \cup {"bogus"}

\* a status update that puts every undelivered order back to pending
PaymentStatusReset(status, paymentStatus) ==
  IF status = "delivered" THEN "completed" ELSE "pending"
\* a status update that never writes paymentStatus
PaymentStatusKept(status, paymentStatus) == paymentStatus
\* if (status === 'delivered') order.paymentStatus = 'completed'
PaymentStatusOnUpdate(status, paymentStatus) ==
  IF status = "delivered" THEN "completed" ELSE paymentStatus

\* a check that lets no order leave delivered, cancelled or refunded
StatusAcceptedOpen(current, status) ==
  status \in StatusEnum /\ current \notin {"delivered", "cancelled", "refunded"}
\* order.status = status; order.save(): the enum of orderSchema.status is the
\* only check, and it looks at the new value alone
StatusAccepted(current, status) == status \in StatusEnum

UpdateOrderStatus ==
  /\ ~inflight.active
  /\ calls < MaxCalls
  /\ calls' = calls + 1
  /\ \E o \in 1..MaxOrders, status \in StatusInputs, emailOk \in BOOLEAN :
       /\ IF o > Len(orders)
          THEN /\ emailOk
               /\ last' = [Response("updateOrderStatus", "admin", 404, "OrderNotFound", o)
                             EXCEPT !.status = status]
               /\ UNCHANGED orders
          ELSE IF ~StatusAccepted(orders[o].status, status)
          THEN \* order.save() rejects a status outside the enum
               /\ emailOk
               /\ last' = [Response("updateOrderStatus", "admin", 500, "ValidationError", o)
                             EXCEPT !.status = status]
               /\ UNCHANGED orders
          ELSE
            LET mail == status \in {"confirmed", "processing"}
                          /\ ~orders[o].emailNotifications.confirmationSent
            IN /\ mail \/ emailOk
               /\ orders' = [orders EXCEPT
                               ![o].status = status,
                               ![o].paymentStatus = PaymentStatusOnUpdate(status, @),
                               ![o].statusHistory =
                                  Append(@, HistoryEntry(status, "Status updated")),
                               ![o].emailNotifications.confirmationSent =
                                  IF mail /\ emailOk THEN TRUE ELSE @]
               /\ last' = [Response("updateOrderStatus", "admin", 200, "", o)
                             EXCEPT !.status = status]
       /\ UNCHANGED <<db, procs, now, live, catalog, usedCount, stock, vstock, payments, carts, nextLineId, mails, audit, inflight>>

(* ------------------------------ verifyPayment ------------------------- *)
RazorpayOrderIds == {"order_A"}
PaymentIds == {"pay_1", "pay_2"}
KeySecret == "key_secret"
ForgedSecret == "forged"

\* crypto.createHmac('sha256', secret).update(body).digest('hex'): the digest of
\* a key and a message is a value that no other key or message produces
Hmac(secret, body) == <<secret, body>>
SignedBody(razorpay_order_id, razorpay_payment_id) ==
  <<razorpay_order_id, "|", razorpay_payment_id>>
Signatures ==
  {Hmac(k, SignedBody(r, p)) : k \in {KeySecret, ForgedSecret},
                               r \in RazorpayOrderIds, p \in PaymentIds}

\* a comparison that accepts every signature
IsAuthenticAny(expectedSignature, razorpay_signature) == TRUE
\* const isAuthentic = expectedSignature === razorpay_signature
IsAuthentic(expectedSignature, razorpay_signature) == expectedSignature = razorpay_signature

\* a ledger without the index
DuplicateKeyNever(ledger, transactionId) == FALSE
\* the unique sparse index on transactionId: entries without one never collide
DuplicateKey(ledger, transactionId) ==
  transactionId # Null /\ \E k \in 1..Len(ledger) : ledger[k].transactionId = transactionId

\* a lookup that finds nothing
FindPaymentNone(ledger, transactionId) == {}
\* Payment.findOne({ transactionId })
FindPayment(ledger, transactionId) ==
  {k \in 1..Len(ledger) : ledger[k].transactionId = transactionId}

PaymentEntry(o, method, status, roid, pid, sig, transactionId) ==
  [order |-> o, paymentMethod |-> method, paymentStatus |-> status,
   razorpayDetails |-> [orderId |-> roid, paymentId |-> pid, signature |-> sig],
   transactionId |-> transactionId]

VerifyPayment ==
  /\ ~inflight.active
  /\ calls < MaxCalls
  /\ calls' = calls + 1
  /\ \E o \in 1..MaxOrders, roid \in RazorpayOrderIds,
        pid \in PaymentIds, sig \in Signatures :
       LET req == [razorpay_order_id |-> roid, razorpay_payment_id |-> pid,
                   razorpay_signature |-> sig]
           expectedSignature == Hmac(KeySecret, SignedBody(roid, pid))
           isAuthentic == IsAuthentic(expectedSignature, sig)
           fresh == PaymentEntry(o, "razorpay", "completed", roid, pid, sig, pid)
           found == FindPayment(payments, pid)
           send == ~orders[o].emailNotifications.confirmationSent
       IN /\ IF o > Len(orders)
             THEN /\ last' = [Response("verifyPayment", Caller, 404, "OrderNotFound", o)
                                EXCEPT !.verify = req]
                  /\ UNCHANGED <<orders, payments, mails>>
             ELSE IF isAuthentic /\ found = {} /\ DuplicateKey(payments, fresh.transactionId)
             THEN \* Payment.create fails on the unique index, nothing else is written
                  /\ last' = [Response("verifyPayment", Caller, 500, "DuplicateKey", o)
                                EXCEPT !.verify = req]
                  /\ UNCHANGED <<orders, payments, mails>>
             ELSE IF isAuthentic
             THEN /\ IF found = {}
                     THEN payments' = Append(payments, fresh)
                     ELSE UNCHANGED payments
                  /\ orders' = [orders EXCEPT
                                  ![o].paymentStatus = "completed",
                                  ![o].status = "processing",
                                  ![o].paymentDetails =
                                     [razorpayOrderId |-> roid, razorpayPaymentId |-> pid,
                                      razorpaySignature |-> sig, transactionId |-> pid]]
                  /\ IF send
                     THEN mails' = [mails EXCEPT ![o] = @ + 1]
                     ELSE UNCHANGED mails
                  /\ last' = [Response("verifyPayment", Caller, 200, "", o) EXCEPT !.verify = req]
             ELSE /\ payments' = Append(payments,
                       PaymentEntry(o, "razorpay", "failed", roid, pid, sig, Null))
                  /\ last' = [Response("verifyPayment", Caller, 400, "InvalidSignature", o)
                                EXCEPT !.verify = req]
                  /\ UNCHANGED <<orders, mails>>
          /\ UNCHANGED <<db, procs, now, live, catalog, usedCount, stock, vstock, carts, nextLineId, audit, inflight>>

(* ------------------------------- initiateCoD -------------------------- *)
InitiateCoD ==
  /\ ~inflight.active
  /\ calls < MaxCalls
  /\ calls' = calls + 1
  /\ \E o \in 1..MaxOrders :
       /\ IF o > Len(orders)
          THEN /\ last' = Response("initiateCoD", Caller, 404, "OrderNotFound", o)
               /\ UNCHANGED <<orders, payments>>
          ELSE /\ payments' = Append(payments,
                    PaymentEntry(o, "cod", "pending", Null, Null, NoSignature, Null))
               /\ orders' = [orders EXCEPT ![o].status = "confirmed"]
               /\ last' = Response("initiateCoD", Caller, 200, "", o)
       /\ UNCHANGED <<db, procs, now, live, catalog, usedCount, stock, vstock, carts, nextLineId, mails, audit, inflight>>

(* ------------------------------- addOrderNote ------------------------- *)
\* order.notes is no path of orderSchema: the save stores nothing new
AddOrderNote ==
  /\ ~inflight.active
  /\ calls < MaxCalls
  /\ calls' = calls + 1
  /\ \E o \in 1..MaxOrders :
       /\ last' = IF o > Len(orders)
                  THEN Response("addOrderNote", Caller, 404, "OrderNotFound", o)
                  ELSE Response("addOrderNote", Caller, 200, "", o)
       /\ UNCHANGED <<db, procs, now, live, catalog, usedCount, stock, vstock, orders, payments, carts, nextLineId,
                      mails, audit, inflight>>

(* ----------------------------- validateCoupon ------------------------- *)
\* req.body of validateCoupon: code, cartTotal and cartItems, as the client sends them
ValidateCodes == {"save10", "ONLYP1", "OLD", "NOPE"}
CartTotals == {50000, 1000000}
CouponCartItems ==
  {<<[product |-> p, price |-> InitialCatalog[p].price, quantity |-> q]>> :
     p \in Products, q \in 1..MaxQty}
    \cup {<<[product |-> "p2", price |-> InitialCatalog["p2"].price, quantity |-> 1],
            [product |-> "p1", price |-> InitialCatalog["p1"].price, quantity |-> 1]>>}

\* an eligible total that counts every item of the cart
EligibleTotalAll(cartItems, applicableIds) ==
  SumSeq([k \in 1..Len(cartItems) |-> cartItems[k].price * cartItems[k].quantity])
\* eligibleTotal: item.price * item.quantity over the items in the applicable list
EligibleTotal(cartItems, applicableIds) ==
  SumSeq([k \in 1..Len(cartItems) |->
            IF cartItems[k].product \in applicableIds
            THEN cartItems[k].price * cartItems[k].quantity ELSE 0])

\* (total * coupon.discountPercentage) / 100, then Math.round to whole rupees
RoundedDiscount(total, percentage) == ((total * percentage + 50000) \div 100000) * 1000

ValidateCoupon ==
  /\ ~inflight.active
  /\ calls < MaxCalls
  /\ calls' = calls + 1
  /\ \E u \in Users, reqCode \in ValidateCodes, cartTotal \in CartTotals,
        cartItems \in CouponCartItems :
       LET code == ToUpperCase(reqCode)
           req == [code |-> reqCode, cartTotal |-> cartTotal, cartItems |-> cartItems]
           answer(status, err, amount) ==
             last' = [Response("validateCoupon", u, status, err, 0)
                        EXCEPT !.coupon = req, !.discountAmount = amount]
           eligibleTotal == EligibleTotal(cartItems, ApplicableProducts(code))
       IN IF code \notin CouponCodes \/ ~isValid(code, now)
          THEN answer(400, "InvalidCoupon", 0)
          ELSE IF cartTotal < MinOrderValue(code)
          THEN answer(400, "MinOrderValue", 0)
          ELSE IF CouponScope(code) = "all"
          THEN answer(200, "", RoundedDiscount(cartTotal, CouponPercentage(code)))
          ELSE IF eligibleTotal = 0
          THEN answer(400, "CouponNotApplicable", 0)
          ELSE answer(200, "", RoundedDiscount(eligibleTotal, CouponPercentage(code)))
  /\ UNCHANGED <<db, procs, now, live, catalog, usedCount, stock, vstock, orders, payments, carts,
                 nextLineId, mails, audit, inflight>>

(* ---------------------------- product admin --------------------------- *)
\* a product write that drags the copies held by the orders along
ProductWriteCascade(os, p) ==
  [o \in DOMAIN os |->
     [os[o] EXCEPT !.items =
        [k \in DOMAIN @ |->
           IF @[k].product = p
           THEN [@[k] EXCEPT !.name = catalog[p].name, !.price = catalog[p].price]
           ELSE @[k]]]]
\* product.save() and product.deleteOne() write the Product collection: the
\* Order collection, whose items hold copies of name and price, is not written
ProductWrite(os, p) == os

\* the fields of req.body that updateProduct looks at, one given per request
ProductChanges ==
  {[field |-> "name", value |-> "Renamed"],
   [field |-> "price", value |-> "610000"],
   [field |-> "discountPercentage", value |-> "50"]}
    \cup {[field |-> "stock", value |-> v] : v \in {"0", "1", "-1"}}

\* Number(value) of a request field
ToNumber(value) ==
  CASE value = "610000" -> 610000
    [] value = "50" -> 50
    [] value = "0" -> 0
    [] value = "1" -> 1
    [] value = "-1" -> 0 - 1

UpdateProduct ==
  /\ ~inflight.active
  /\ calls < MaxCalls
  /\ calls' = calls + 1
  /\ \E p \in Products, change \in ProductChanges :
       LET answer(code, err) ==
             last' = [Response("updateProduct", "admin", code, err, 0)
                        EXCEPT !.item = [NoItem EXCEPT !.product = p]]
           newStock == IF change.field = "stock" THEN ToNumber(change.value) ELSE stock[p]
       IN /\ IF p \notin live
             THEN answer(404, "ProductNotFound") /\ UNCHANGED <<catalog, stock, orders, audit>>
             ELSE IF ~StockValid(newStock)
             THEN answer(500, "ValidationError") /\ UNCHANGED <<catalog, stock, orders, audit>>
             ELSE /\ answer(200, "")
                  /\ catalog' =
                       CASE change.field = "name" -> [catalog EXCEPT ![p].name = change.value]
                         [] change.field = "price" ->
                              [catalog EXCEPT ![p].price = ToNumber(change.value)]
                         [] change.field = "discountPercentage" ->
                              [catalog EXCEPT ![p].discountPercentage = ToNumber(change.value)]
                         [] OTHER -> catalog
                  /\ stock' = [stock EXCEPT ![p] = newStock]
                  /\ orders' = ProductWrite(orders, p)
                  /\ audit' = Touch(audit, TRUE)
          /\ UNCHANGED <<db, procs, now, live, usedCount, vstock, payments, carts, nextLineId, mails, inflight>>

DeleteProduct ==
  /\ ~inflight.active
  /\ calls < MaxCalls
  /\ calls' = calls + 1
  /\ \E p \in Products :
       LET answer(code, err) ==
             last' = [Response("deleteProduct", "admin", code, err, 0)
                        EXCEPT !.item = [NoItem EXCEPT !.product = p]]
       IN /\ IF p \notin live
             THEN answer(404, "ProductNotFound") /\ UNCHANGED <<live, orders, audit>>
             ELSE /\ answer(200, "")
                  /\ live' = live \ {p}
                  /\ orders' = ProductWrite(orders, p)
                  /\ audit' = Touch(audit, TRUE)
          /\ UNCHANGED <<db, procs, now, catalog, usedCount, stock, vstock, payments, carts, nextLineId,
                         mails, inflight>>

(* --------------------------------- cart ------------------------------- *)
\* selectedSize and selectedColor of a request: both left out, or both given
VariantInputs == {<<Absent, Absent>>, <<"Free Size", "Red">>}

\* value || fallback
OrElse(value, fallback) == IF value = Absent THEN fallback ELSE value

EmptyCart ==
  [items |-> <<>>, subtotal |-> 0, totalShipping |-> 0, totalTax |-> 0,
   totalAmount |-> 0, totalItems |-> 0]

CartLine(id, product, quantity, price, selectedSize, selectedColor) ==
  [id |-> id, product |-> product, quantity |-> quantity, price |-> price,
   taxAmount |-> 0, shippingAmount |-> 0,
   selectedSize |-> selectedSize, selectedColor |-> selectedColor]

\* the running totals of the loop over the lines
LineTotals(lines) == SumSeq([k \in 1..Len(lines) |-> lines[k].price * lines[k].quantity])
Quantities(lines) == SumSeq([k \in 1..Len(lines) |-> lines[k].quantity])

\* the unit price as the cart controller resolves it
CartUnitPrice(p, userRole) ==
  IF userRole = "reseller"
  THEN (IF WholesalePrice(p) > 0 THEN WholesalePrice(p) ELSE Price(p))
  ELSE getCurrentPrice(p, "user", now)

\* logisticsSettings.shippingCost of recalculateCart
CartShippingRate(p, userRole) ==
  IF userRole = "reseller" THEN WholesaleShippingCost(p) ELSE RetailShippingCost(p)

\* recalculateCart: drop the lines of deleted products, reprice, retotal
recalculateCart(cart, userRole) ==
  LET kept == SelectSeq(cart.items, LAMBDA line : line.product \in live)
      lines == [k \in 1..Len(kept) |->
                  [kept[k] EXCEPT
                     !.price = CartUnitPrice(kept[k].product, userRole),
                     !.shippingAmount =
                        Round2(CartShippingRate(kept[k].product, userRole) * kept[k].quantity),
                     !.taxAmount = 0]]
      itemShipping == [k \in 1..Len(lines) |->
                         CartShippingRate(lines[k].product, userRole) * lines[k].quantity]
      subtotal == Round2(LineTotals(lines))
      totalShipping == Round2(SumSeq(itemShipping))
  IN [items |-> lines,
      subtotal |-> subtotal,
      totalShipping |-> totalShipping,
      totalTax |-> 0,
      totalItems |-> Quantities(lines),
      totalAmount |-> Round2(subtotal + totalShipping)]

\* Cart.findOne({ user }), or the document Cart.create stores when there is none
CartOf(u) == IF u \in DOMAIN carts THEN carts[u] ELSE EmptyCart

\* the Cart collection holds at most MaxCarts documents
CartAllowed(u) == Cardinality(DOMAIN carts \cup {u}) <= MaxCarts

PutCart(u, cart) == [v \in DOMAIN carts \cup {u} |-> IF v = u THEN cart ELSE carts[v]]

\* Array.prototype.findIndex, 0 standing for -1
FindIndex(hits) == IF hits = {} THEN 0 ELSE CHOOSE k \in hits : \A j \in hits : k <= j

CartRequest(op, u, code, err, product, quantity, selectedSize, selectedColor) ==
  [Response(op, u, code, err, 0) EXCEPT
     !.item = [product |-> product, quantity |-> quantity,
               selectedSize |-> selectedSize, selectedColor |-> selectedColor]]

AddToCart ==
  /\ ~inflight.active
  /\ calls < MaxCalls
  /\ calls' = calls + 1
  /\ \E u \in Users, product \in Products, quantity \in 0..MaxQty, variant \in VariantInputs :
       LET selectedSize == variant[1]
           selectedColor == variant[2]
           answer(code, err) ==
             last' = CartRequest("addToCart", u, code, err, product, quantity,
                                 selectedSize, selectedColor)
           cart == CartOf(u)
           existingItemIndex ==
             FindIndex({k \in 1..Len(cart.items) :
                          /\ cart.items[k].product = product
                          /\ cart.items[k].selectedSize = selectedSize
                          /\ cart.items[k].selectedColor = selectedColor})
           unitPrice == CartUnitPrice(product, Role(u))
           existingQty ==
             IF existingItemIndex > 0 THEN cart.items[existingItemIndex].quantity ELSE 0
           added ==
             IF existingItemIndex > 0
             THEN [cart EXCEPT !.items[existingItemIndex].quantity = @ + quantity,
                               !.items[existingItemIndex].price = unitPrice]
             ELSE [cart EXCEPT !.items =
                     Append(@, CartLine(nextLineId, product, quantity, unitPrice,
                                        OrElse(selectedSize, "Free Size"),
                                        OrElse(selectedColor, "Standard")))]
       IN /\ CartAllowed(u)
          /\ IF quantity < 1
             THEN answer(400, "QuantityInvalid") /\ UNCHANGED <<carts, nextLineId>>
             ELSE IF product \notin live
             THEN answer(404, "ProductNotFound") /\ UNCHANGED <<carts, nextLineId>>
             ELSE IF stock[product] < existingQty + quantity
             THEN /\ answer(400, "InsufficientStock")
                  /\ carts' = PutCart(u, cart)
                  /\ UNCHANGED nextLineId
             ELSE /\ answer(200, "")
                  /\ carts' = PutCart(u, recalculateCart(added, Role(u)))
                  /\ nextLineId' = IF existingItemIndex > 0 THEN nextLineId ELSE nextLineId + 1
          /\ UNCHANGED <<db, procs, now, live, catalog, usedCount, stock, vstock, orders, payments, mails, audit, inflight>>

\* the :itemId of a request: the _id of a line, or the id of a product
LineIds == 1..MaxCalls
Identifiers ==
  {[kind |-> "line", line |-> n, product |-> Null] : n \in LineIds}
    \cup {[kind |-> "product", line |-> 0, product |-> p] : p \in Products}

UpdateCartItem ==
  /\ ~inflight.active
  /\ calls < MaxCalls
  /\ calls' = calls + 1
  /\ \E u \in Users, identifier \in Identifiers, quantity \in 0..MaxQty :
       LET answer(code, err) ==
             last' = CartRequest("updateCartItem", u, code, err, identifier, quantity,
                                 Absent, Absent)
           cart == carts[u]
           itemIndex ==
             FindIndex({k \in 1..Len(cart.items) :
                          \/ cart.items[k].id = identifier.line
                          \/ cart.items[k].product = identifier.product})
           product == cart.items[itemIndex].product
           spliced == [cart EXCEPT !.items =
                         SubSeq(@, 1, itemIndex - 1) \o SubSeq(@, itemIndex + 1, Len(@))]
       IN /\ CartAllowed(u)
          /\ IF quantity < 1 THEN answer(400, "QuantityInvalid") /\ UNCHANGED carts
             ELSE IF u \notin DOMAIN carts THEN answer(404, "CartNotFound") /\ UNCHANGED carts
             ELSE IF itemIndex = 0 THEN answer(404, "ItemNotFound") /\ UNCHANGED carts
             ELSE IF product \notin live
             THEN /\ answer(404, "ProductGone")
                  /\ carts' = PutCart(u, recalculateCart(spliced, Role(u)))
             ELSE IF stock[product] < quantity
             THEN answer(400, "InsufficientStock") /\ UNCHANGED carts
             ELSE /\ answer(200, "")
                  /\ carts' = PutCart(u, recalculateCart(
                                 [cart EXCEPT !.items[itemIndex].quantity = quantity], Role(u)))
          /\ UNCHANGED <<db, procs, now, live, catalog, usedCount, stock, vstock, orders, payments, nextLineId, mails,
                         audit, inflight>>

RemoveFromCart ==
  /\ ~inflight.active
  /\ calls < MaxCalls
  /\ calls' = calls + 1
  /\ \E u \in Users, identifier \in Identifiers :
       LET answer(code, err) ==
             last' = CartRequest("removeFromCart", u, code, err, identifier, 0, Absent, Absent)
           cart == carts[u]
           rest == SelectSeq(cart.items, LAMBDA i : i.id # identifier.line)
       IN /\ CartAllowed(u)
          /\ IF u \notin DOMAIN carts THEN answer(404, "CartNotFound") /\ UNCHANGED carts
             ELSE IF Len(rest) = Len(cart.items)
             THEN answer(404, "ItemNotFound") /\ UNCHANGED carts
             ELSE /\ answer(200, "")
                  /\ carts' = PutCart(u, recalculateCart([cart EXCEPT !.items = rest], Role(u)))
          /\ UNCHANGED <<db, procs, now, live, catalog, usedCount, stock, vstock, orders, payments, nextLineId, mails,
                         audit, inflight>>

ClearCart ==
  /\ ~inflight.active
  /\ calls < MaxCalls
  /\ calls' = calls + 1
  /\ \E u \in Users :
       /\ CartAllowed(u)
       /\ IF u \notin DOMAIN carts
          THEN /\ last' = Response("clearCart", u, 404, "CartNotFound", 0)
               /\ UNCHANGED carts
          ELSE /\ last' = Response("clearCart", u, 200, "", 0)
               /\ carts' = PutCart(u, EmptyCart)
       /\ UNCHANGED <<db, procs, now, live, catalog, usedCount, stock, vstock, orders, payments, nextLineId, mails,
                      audit, inflight>>

GetCart ==
  /\ ~inflight.active
  /\ calls < MaxCalls
  /\ calls' = calls + 1
  /\ \E u \in Users :
       /\ CartAllowed(u)
       /\ last' = Response("getCart", u, 200, "", 0)
       /\ carts' = PutCart(u, recalculateCart(CartOf(u), Role(u)))
       /\ UNCHANGED <<db, procs, now, live, catalog, usedCount, stock, vstock, orders, payments, nextLineId, mails,
                      audit, inflight>>

GuestItems ==
  {[product |-> p, quantity |-> q, selectedSize |-> v[1], selectedColor |-> v[2]] :
     p \in Products, q \in {1}, v \in VariantInputs}

\* the loop of mergeCart: sum into the matching line or push a new one
RECURSIVE MergeItems(_, _, _, _)
MergeItems(guestCartItems, cart, userRole, lineId) ==
  IF guestCartItems = <<>> THEN [cart |-> cart, lineId |-> lineId]
  ELSE
    LET guestItem == Head(guestCartItems)
        unitPrice == CartUnitPrice(guestItem.product, userRole)
        existingItemIndex ==
          FindIndex({k \in 1..Len(cart.items) :
                       /\ cart.items[k].product = guestItem.product
                       /\ cart.items[k].selectedSize = guestItem.selectedSize
                       /\ cart.items[k].selectedColor = guestItem.selectedColor})
    IN IF guestItem.product \notin live
       THEN MergeItems(Tail(guestCartItems), cart, userRole, lineId)
       ELSE IF existingItemIndex > 0
       THEN MergeItems(Tail(guestCartItems),
                       [cart EXCEPT !.items[existingItemIndex].quantity = @ + guestItem.quantity,
                                    !.items[existingItemIndex].price = unitPrice],
                       userRole, lineId)
       ELSE MergeItems(Tail(guestCartItems),
                       [cart EXCEPT !.items =
                          Append(@, CartLine(lineId, guestItem.product, guestItem.quantity,
                                             unitPrice,
                                             OrElse(guestItem.selectedSize, "Free Size"),
                                             OrElse(guestItem.selectedColor, "Standard")))],
                       userRole, lineId + 1)

MergeCart ==
  /\ ~inflight.active
  /\ calls < MaxCalls
  /\ calls' = calls + 1
  /\ \E u \in Users, first \in GuestItems, more \in {<<>>} \cup {<<g>> : g \in GuestItems} :
       LET r == MergeItems(<<first>> \o more, CartOf(u), Role(u), nextLineId)
       IN /\ CartAllowed(u)
          /\ carts' = PutCart(u, recalculateCart(r.cart, Role(u)))
          /\ nextLineId' = r.lineId
          /\ last' = [Response("mergeCart", u, 200, "", 0) EXCEPT !.item = first]
          /\ UNCHANGED <<db, procs, now, live, catalog, usedCount, stock, vstock, orders, payments, mails, audit, inflight>>

(* ------------------------- concurrent requests ------------------------ *)
\* the requests in flight at the same time
MaxProcs == 2
Procs == 1..MaxProcs

\* a request that has not arrived; stockRead and variantRead are the fields of
\* the product document the handler holds, found is the result of its findOne,
\* read is the cart document as Cart.findOne returned it and doc the same
\* document after the handler's changes; arrayWrite says that the items array
\* is written as a whole, stale that the stored version key has moved on
IdleProc ==
  [pc |-> "idle", op |-> "none", user |-> Null, item |-> NoItem, stockRead |-> 0,
   variantRead |-> 0, order |-> 0, verify |-> NoVerify, found |-> FALSE,
   read |-> EmptyCart, doc |-> EmptyCart, arrayWrite |-> FALSE, stale |-> FALSE,
   code |-> 0, err |-> ""]

Finished(proc, code, err) == [proc EXCEPT !.pc = "done", !.code = code, !.err = err]

\* a save that takes the quantity from the stock the database holds
SavedStockAtomic(stockRead, stored, quantity) == stored - quantity
\* product.stock -= item.quantity; product.save(): the document's own value,
\* read by findById, is written back ($set)
SavedStock(stockRead, stored, quantity) == stockRead - quantity

\* createOrder arrives: one item, paid online, no coupon
RaceOrderBegin(r) ==
  /\ procs[r].pc = "idle"
  /\ \E u \in Users, item \in OrderItemRequests :
       procs' = [procs EXCEPT ![r] = [IdleProc EXCEPT !.pc = "find", !.op = "createOrder",
                                                      !.user = u, !.item = item]]
  /\ UNCHANGED <<db, now, live, catalog, usedCount, stock, vstock, orders, payments, carts,
                 nextLineId, mails, audit, inflight, calls, last>>

\* await Product.findById(item.product)
RaceOrderFind(r) ==
  /\ procs[r].op = "createOrder"
  /\ procs[r].pc = "find"
  /\ LET item == procs[r].item
         key == <<item.product, item.selectedColor>>
     IN procs' = [procs EXCEPT ![r] =
          IF item.product \notin live THEN Finished(@, 404, "ProductNotFound")
          ELSE [@ EXCEPT !.pc = "check",
                         !.stockRead = stock[item.product],
                         !.variantRead = IF key \in DOMAIN vstock THEN vstock[key] ELSE 0]]
  /\ UNCHANGED <<db, now, live, catalog, usedCount, stock, vstock, orders, payments, carts,
                 nextLineId, mails, audit, inflight, calls, last>>

\* the stock check, the deduction and await product.save()
RaceOrderSave(r) ==
  /\ procs[r].op = "createOrder"
  /\ procs[r].pc = "check"
  /\ LET item == procs[r].item
         p == item.product
         key == <<p, item.selectedColor>>
         newStock == SavedStock(procs[r].stockRead, stock[p], item.quantity)
     IN IF InsufficientStock(procs[r].stockRead, item.quantity)
        THEN /\ procs' = [procs EXCEPT ![r] = Finished(@, 400, "InsufficientStock")]
             /\ UNCHANGED <<stock, vstock, audit>>
        ELSE IF ~StockValid(newStock)
        THEN /\ procs' = [procs EXCEPT ![r] = Finished(@, 500, "ValidationError")]
             /\ UNCHANGED <<stock, vstock, audit>>
        ELSE /\ stock' = [stock EXCEPT ![p] = newStock]
             /\ vstock' = IF key \in DOMAIN vstock
                           THEN [vstock EXCEPT ![key] =
                                   IF procs[r].variantRead - item.quantity < 0 THEN 0
                                   ELSE procs[r].variantRead - item.quantity]
                           ELSE vstock
             /\ audit' = Touch(audit, TRUE)
             /\ procs' = [procs EXCEPT ![r].pc = "create"]
  /\ UNCHANGED <<db, now, live, catalog, usedCount, orders, payments, carts, nextLineId,
                 mails, inflight, calls, last>>

\* await Order.create(...), then the cart is deleted and 201 is sent
RaceOrderCreate(r) ==
  /\ procs[r].op = "createOrder"
  /\ procs[r].pc = "create"
  /\ LET item == procs[r].item
         u == procs[r].user
         unitPrice == getCurrentPrice(item.product, Role(u), now)
         line == [product |-> item.product, name |-> ProductName(item.product),
                  quantity |-> item.quantity, price |-> unitPrice,
                  selectedSize |-> item.selectedSize, selectedColor |-> item.selectedColor]
         request == [user |-> u, items |-> <<line>>,
                     subtotal |-> unitPrice * item.quantity,
                     totalShipping |-> getShippingCost(item.product, Role(u)) * item.quantity]
     IN /\ orders' = Append(orders, NewOrder(request))
        /\ audit' = Append(audit,
             [stockBefore |-> [stock EXCEPT ![item.product] = procs[r].stockRead],
              vstockBefore |-> vstock,
              clean |-> FALSE, restores |-> 0, fromCart |-> FALSE])
        /\ carts' = [v \in DOMAIN carts \ {u} |-> carts[v]]
        /\ procs' = [procs EXCEPT ![r] = [Finished(@, 201, "") EXCEPT !.order = Len(orders) + 1]]
  /\ UNCHANGED <<db, now, live, catalog, usedCount, stock, vstock, payments, nextLineId,
                 mails, inflight, calls, last>>

\* verifyPayment arrives with all four fields present
RaceVerifyBegin(r) ==
  /\ procs[r].pc = "idle"
  /\ ~inflight.active
  /\ calls < MaxCalls
  /\ calls' = calls + 1
  /\ \E o \in 1..MaxOrders, roid \in RazorpayOrderIds,
        pid \in PaymentIds, sig \in Signatures :
       procs' = [procs EXCEPT ![r] =
         [IdleProc EXCEPT !.pc = "findOrder", !.op = "verifyPayment", !.user = Caller,
                          !.order = o,
                          !.verify = [razorpay_order_id |-> roid, razorpay_payment_id |-> pid,
                                      razorpay_signature |-> sig]]]
  /\ UNCHANGED <<db, now, live, catalog, usedCount, stock, vstock, orders, payments, carts,
                 nextLineId, mails, audit, inflight, last>>

\* await Order.findById(orderId), then the signature is compared
RaceVerifyOrder(r) ==
  /\ procs[r].op = "verifyPayment"
  /\ procs[r].pc = "findOrder"
  /\ LET v == procs[r].verify
         expectedSignature ==
           Hmac(KeySecret, SignedBody(v.razorpay_order_id, v.razorpay_payment_id))
     IN procs' = [procs EXCEPT ![r] =
          IF procs[r].order > Len(orders) THEN Finished(@, 404, "OrderNotFound")
          ELSE IF IsAuthentic(expectedSignature, v.razorpay_signature)
          THEN [@ EXCEPT !.pc = "findPayment"]
          ELSE [@ EXCEPT !.pc = "logFailure"]]
  /\ UNCHANGED <<db, now, live, catalog, usedCount, stock, vstock, orders, payments, carts,
                 nextLineId, mails, audit, inflight, calls, last>>

\* await Payment.findOne({ transactionId: razorpay_payment_id })
RaceVerifyFind(r) ==
  /\ procs[r].op = "verifyPayment"
  /\ procs[r].pc = "findPayment"
  /\ LET found == FindPayment(payments, procs[r].verify.razorpay_payment_id) # {}
     IN procs' = [procs EXCEPT ![r] =
          [@ EXCEPT !.found = found, !.pc = IF found THEN "saveOrder" ELSE "createPayment"]]
  /\ UNCHANGED <<db, now, live, catalog, usedCount, stock, vstock, orders, payments, carts,
                 nextLineId, mails, audit, inflight, calls, last>>

\* await Payment.create({... transactionId: razorpay_payment_id}): the unique
\* index rejects a second entry and the handler ends with the error
RaceVerifyCreate(r) ==
  /\ procs[r].op = "verifyPayment"
  /\ procs[r].pc = "createPayment"
  /\ LET v == procs[r].verify
         fresh == PaymentEntry(procs[r].order, "razorpay", "completed", v.razorpay_order_id,
                               v.razorpay_payment_id, v.razorpay_signature,
                               v.razorpay_payment_id)
     IN IF DuplicateKey(payments, fresh.transactionId)
        THEN /\ procs' = [procs EXCEPT ![r] = Finished(@, 500, "DuplicateKey")]
             /\ UNCHANGED payments
        ELSE /\ payments' = Append(payments, fresh)
             /\ procs' = [procs EXCEPT ![r].pc = "saveOrder"]
  /\ UNCHANGED <<db, now, live, catalog, usedCount, stock, vstock, orders, carts,
                 nextLineId, mails, audit, inflight, calls, last>>

\* the order is marked paid, await order.save(), the mail, and the 200
RaceVerifySave(r) ==
  /\ procs[r].op = "verifyPayment"
  /\ procs[r].pc = "saveOrder"
  /\ LET v == procs[r].verify
         o == procs[r].order
     IN /\ orders' = [orders EXCEPT
                        ![o].paymentStatus = "completed",
                        ![o].status = "processing",
                        ![o].paymentDetails =
                           [razorpayOrderId |-> v.razorpay_order_id,
                            razorpayPaymentId |-> v.razorpay_payment_id,
                            razorpaySignature |-> v.razorpay_signature,
                            transactionId |-> v.razorpay_payment_id]]
        /\ mails' = IF ~orders[o].emailNotifications.confirmationSent
                     THEN [mails EXCEPT ![o] = @ + 1]
                     ELSE mails
        /\ procs' = [procs EXCEPT ![r] = Finished(@, 200, "")]
  /\ UNCHANGED <<db, now, live, catalog, usedCount, stock, vstock, payments, carts,
                 nextLineId, audit, inflight, calls, last>>

\* the signature did not match: the failed attempt is logged and 400 is sent
RaceVerifyFail(r) ==
  /\ procs[r].op = "verifyPayment"
  /\ procs[r].pc = "logFailure"
  /\ LET v == procs[r].verify
     IN payments' = Append(payments,
          PaymentEntry(procs[r].order, "razorpay", "failed", v.razorpay_order_id,
                       v.razorpay_payment_id, v.razorpay_signature, Null))
  /\ procs' = [procs EXCEPT ![r] = Finished(@, 400, "InvalidSignature")]
  /\ UNCHANGED <<db, now, live, catalog, usedCount, stock, vstock, orders, carts,
                 nextLineId, mails, audit, inflight, calls, last>>

\* the cart mutations that overlap
CartRaceOps == {"addToCart", "updateCartItem"}

\* document.save() sends the paths whose value differs from what was read
SavedValue(local, read, stored) == IF local # read THEN local ELSE stored

\* the fields of a line or of the cart root, path by path
SavedFields(local, read, stored) ==
  [f \in DOMAIN stored |-> SavedValue(local[f], read[f], stored[f])]

\* a save that sends only the lines pushed since the read
SavedItemsPushed(local, read, stored, arrayWrite) ==
  IF arrayWrite THEN stored \o SubSeq(local, Len(read) + 1, Len(local))
  ELSE [k \in 1..Len(stored) |-> SavedFields(local[k], read[k], stored[k])]
\* the items of cart.save(): the array as a whole after a push, a splice or a
\* filter that dropped a line, else items.<k>.<field> for the fields that changed
SavedItems(local, read, stored, arrayWrite) ==
  IF arrayWrite THEN local
  ELSE [k \in 1..Len(stored) |-> SavedFields(local[k], read[k], stored[k])]

\* cart.save(): the items and the root totals
SavedCart(local, read, stored, arrayWrite) ==
  LET root == SavedFields([local EXCEPT !.items = <<>>], [read EXCEPT !.items = <<>>],
                          [stored EXCEPT !.items = <<>>])
  IN [root EXCEPT !.items = SavedItems(local.items, read.items, stored.items, arrayWrite)]

\* addToCart or updateCartItem arrives
RaceCartBegin(r) ==
  /\ procs[r].pc = "idle"
  /\ calls < MaxCalls
  /\ calls' = calls + 1
  /\ \E u \in Users, op \in CartRaceOps, quantity \in 0..MaxQty :
       /\ CartAllowed(u)
       /\ \/ /\ op = "addToCart"
             /\ \E product \in Products, variant \in VariantInputs :
                  procs' = [procs EXCEPT ![r] =
                    [IdleProc EXCEPT !.pc = "read", !.op = op, !.user = u,
                       !.item = [product |-> product, quantity |-> quantity,
                                 selectedSize |-> variant[1], selectedColor |-> variant[2]]]]
          \/ /\ op = "updateCartItem"
             /\ \E identifier \in Identifiers :
                  procs' = [procs EXCEPT ![r] =
                    [IdleProc EXCEPT !.pc = "read", !.op = op, !.user = u,
                       !.item = [product |-> identifier, quantity |-> quantity,
                                 selectedSize |-> Absent, selectedColor |-> Absent]]]
  /\ UNCHANGED <<db, now, live, catalog, usedCount, stock, vstock, orders, payments, carts,
                 nextLineId, mails, audit, inflight, last>>

\* addToCart up to recalculateCart: Product.findById, Cart.findOne (Cart.create
\* when there is none), the stock check and the change to the document
RaceAddRead(r) ==
  /\ procs[r].op = "addToCart"
  /\ procs[r].pc = "read"
  /\ LET u == procs[r].user
         product == procs[r].item.product
         quantity == procs[r].item.quantity
         selectedSize == procs[r].item.selectedSize
         selectedColor == procs[r].item.selectedColor
         cart == CartOf(u)
         existingItemIndex ==
           FindIndex({k \in 1..Len(cart.items) :
                        /\ cart.items[k].product = product
                        /\ cart.items[k].selectedSize = selectedSize
                        /\ cart.items[k].selectedColor = selectedColor})
         unitPrice == CartUnitPrice(product, Role(u))
         existingQty ==
           IF existingItemIndex > 0 THEN cart.items[existingItemIndex].quantity ELSE 0
         added ==
           IF existingItemIndex > 0
           THEN [cart EXCEPT !.items[existingItemIndex].quantity = @ + quantity,
                             !.items[existingItemIndex].price = unitPrice]
           ELSE [cart EXCEPT !.items =
                   Append(@, CartLine(nextLineId, product, quantity, unitPrice,
                                      OrElse(selectedSize, "Free Size"),
                                      OrElse(selectedColor, "Standard")))]
     IN IF quantity < 1
        THEN /\ procs' = [procs EXCEPT ![r] = Finished(@, 400, "QuantityInvalid")]
             /\ UNCHANGED <<carts, nextLineId>>
        ELSE IF product \notin live
        THEN /\ procs' = [procs EXCEPT ![r] = Finished(@, 404, "ProductNotFound")]
             /\ UNCHANGED <<carts, nextLineId>>
        ELSE IF stock[product] < existingQty + quantity
        THEN /\ procs' = [procs EXCEPT ![r] = Finished(@, 400, "InsufficientStock")]
             /\ carts' = PutCart(u, cart)
             /\ UNCHANGED nextLineId
        ELSE /\ procs' = [procs EXCEPT ![r] =
                  [@ EXCEPT !.pc = "save", !.read = cart, !.doc = added,
                            !.arrayWrite = (existingItemIndex = 0)]]
             /\ carts' = PutCart(u, cart)
             /\ nextLineId' = IF existingItemIndex > 0 THEN nextLineId ELSE nextLineId + 1
  /\ UNCHANGED <<db, now, live, catalog, usedCount, stock, vstock, orders, payments,
                 mails, audit, inflight, calls, last>>

\* updateCartItem up to recalculateCart: Cart.findOne, the line, Product.findById,
\* the stock check and the change to the document
RaceUpdateRead(r) ==
  /\ procs[r].op = "updateCartItem"
  /\ procs[r].pc = "read"
  /\ LET u == procs[r].user
         identifier == procs[r].item.product
         quantity == procs[r].item.quantity
         cart == carts[u]
         itemIndex ==
           FindIndex({k \in 1..Len(cart.items) :
                        \/ cart.items[k].id = identifier.line
                        \/ cart.items[k].product = identifier.product})
         product == cart.items[itemIndex].product
         spliced == [cart EXCEPT !.items =
                       SubSeq(@, 1, itemIndex - 1) \o SubSeq(@, itemIndex + 1, Len(@))]
     IN procs' = [procs EXCEPT ![r] =
          IF quantity < 1 THEN Finished(@, 400, "QuantityInvalid")
          ELSE IF u \notin DOMAIN carts THEN Finished(@, 404, "CartNotFound")
          ELSE IF itemIndex = 0 THEN Finished(@, 404, "ItemNotFound")
          ELSE IF product \notin live
          THEN [@ EXCEPT !.pc = "save", !.read = cart, !.doc = spliced, !.arrayWrite = TRUE,
                         !.code = 404, !.err = "ProductGone"]
          ELSE IF stock[product] < quantity THEN Finished(@, 400, "InsufficientStock")
          ELSE [@ EXCEPT !.pc = "save", !.read = cart,
                         !.doc = [cart EXCEPT !.items[itemIndex].quantity = quantity],
                         !.arrayWrite = FALSE]]
  /\ UNCHANGED <<db, now, live, catalog, usedCount, stock, vstock, orders, payments, carts,
                 nextLineId, mails, audit, inflight, calls, last>>

\* recalculateCart and its cart.save(): the update carries the version key the
\* document was read with and fails when the stored one has moved on; a write
\* of the whole array moves it on
RaceCartSave(r) ==
  /\ procs[r].op \in CartRaceOps
  /\ procs[r].pc = "save"
  /\ LET u == procs[r].user
         local == recalculateCart(procs[r].doc, Role(u))
         arrayWrite == procs[r].arrayWrite \/ Len(local.items) # Len(procs[r].doc.items)
     IN IF procs[r].stale \/ u \notin DOMAIN carts
        THEN /\ procs' = [procs EXCEPT ![r] = Finished(@, 500, "VersionError")]
             /\ UNCHANGED carts
        ELSE /\ carts' = PutCart(u, SavedCart(local, procs[r].read, carts[u], arrayWrite))
             /\ procs' = [q \in Procs |->
                  IF q = r
                  THEN Finished(procs[r], IF procs[r].code = 0 THEN 200 ELSE procs[r].code,
                                procs[r].err)
                  ELSE IF arrayWrite /\ procs[q].pc = "save" /\ procs[q].user = u
                  THEN [procs[q] EXCEPT !.stale = TRUE]
                  ELSE procs[q]]
  /\ UNCHANGED <<db, now, live, catalog, usedCount, stock, vstock, orders, payments,
                 nextLineId, mails, audit, inflight, calls, last>>

(* ------------------------------- connectDB ---------------------------- *)
\* let retries = 3
Retries == 3
\* setTimeout(connect, 5000), in seconds
RetryDelay == 5
\* the longest time, in seconds, mongoose.connect takes to resolve or reject
MaxConnectTime == 2

\* settled: the promise that connectDB() returned has settled
NotStarted ==
  [phase |-> "idle", retries |-> 0, attempts |-> 0, timer |-> 0, pending |-> 0,
   elapsed |-> 0, exitCode |-> 0, settled |-> FALSE]

\* the retry test of the catch block, one attempt too generous
RetryLeftLoose(retries) == retries >= 0
\* if (retries > 0) after retries--
RetryLeft(retries) == retries > 0

\* connectDB(): let retries = 3; return connect()
ConnectDB ==
  /\ db.phase = "idle"
  /\ db' = [db EXCEPT !.phase = "connecting", !.retries = Retries, !.attempts = 1]
  /\ UNCHANGED appVars

\* a second passes while mongoose.connect is pending
ConnectPending ==
  /\ db.phase = "connecting"
  /\ db.pending < MaxConnectTime
  /\ db' = [db EXCEPT !.pending = @ + 1, !.elapsed = @ + 1]
  /\ UNCHANGED appVars

\* mongoose.connect resolves: return conn
ConnectSucceeds ==
  /\ db.phase = "connecting"
  /\ db' = [db EXCEPT !.phase = "connected", !.settled = TRUE]
  /\ UNCHANGED appVars

\* mongoose.connect rejects: the catch block
ConnectFails ==
  /\ db.phase = "connecting"
  /\ LET retries == db.retries - 1
     IN db' = IF RetryLeft(retries)
              THEN \* return setTimeout(connect, 5000): connect() resolves with the timer
                   [db EXCEPT !.retries = retries, !.phase = "waiting", !.timer = RetryDelay,
                              !.settled = TRUE]
              ELSE [db EXCEPT !.retries = retries, !.phase = "exited", !.exitCode = 1]
  /\ UNCHANGED appVars

\* a second of the 5000 ms timer passes
TimerPending ==
  /\ db.phase = "waiting"
  /\ db.timer > 0
  /\ db' = [db EXCEPT !.timer = @ - 1, !.elapsed = @ + 1]
  /\ UNCHANGED appVars

\* the timer calls connect again
TimerFires ==
  /\ db.phase = "waiting"
  /\ db.timer = 0
  /\ db' = [db EXCEPT !.phase = "connecting", !.attempts = @ + 1, !.pending = 0]
  /\ UNCHANGED appVars

(* ------------------------------ behaviour ----------------------------- *)
Init ==
  /\ now = 0
  /\ live = Products
  /\ catalog = InitialCatalog
  /\ usedCount = [code \in CouponCodes |-> 0]
  /\ stock \in {s \in [Products -> 0..MaxStock] : s["p2"] = MaxStock}
  /\ vstock \in [VariantKeys -> 0..1]
  /\ orders = <<>>
  /\ payments = <<>>
  /\ carts = <<>>
  /\ nextLineId = 1
  /\ mails = [k \in 1..MaxOrders |-> 0]
  /\ audit = <<>>
  /\ inflight = Idle
  /\ calls = 0
  /\ last = NoRequest
  /\ db = NotStarted
  /\ procs = [r \in Procs |-> IdleProc]

Next ==
  \/ CreateOrderBegin
  \/ CreateOrderItem
  \/ CreateOrderFinish
  \/ CancelOrder
  \/ UpdateOrderStatus
  \/ VerifyPayment
  \/ InitiateCoD
  \/ AddOrderNote

Spec == Init /\ [][Next]_vars

\* the cart handlers
NextCart ==
  \/ AddToCart
  \/ UpdateCartItem
  \/ RemoveFromCart
  \/ MergeCart
  \/ ClearCart
  \/ GetCart

InitCart == Init /\ \A k \in VariantKeys : vstock[k] = 1

SpecCart == InitCart /\ [][NextCart]_vars

\* filling the cart and checking out
NextCheckout ==
  \/ AddToCart
  \/ CreateOrderBegin
  \/ CreateOrderItem
  \/ CreateOrderFinish

SpecCheckout == InitCart /\ [][NextCheckout]_vars

\* the start of the server: connectDB on its own
NextDB ==
  \/ ConnectDB
  \/ ConnectPending
  \/ ConnectSucceeds
  \/ ConnectFails
  \/ TimerPending
  \/ TimerFires

InitDB == InitCart /\ stock = [p \in Products |-> MaxStock]

\* every pending connect settles and every timer runs down and fires
SpecDB == InitDB /\ [][NextDB]_vars /\ WF_vars(NextDB)

\* createOrder requests that interleave at their awaits
NextOrderRace ==
  \E r \in Procs :
    \/ RaceOrderBegin(r)
    \/ RaceOrderFind(r)
    \/ RaceOrderSave(r)
    \/ RaceOrderCreate(r)

SpecOrderRace == InitCart /\ [][NextOrderRace]_vars

\* a cart is filled, and cart mutations interleave at their awaits
NextCartRace ==
  \/ (\A r \in Procs : procs[r].pc = "idle") /\ AddToCart
  \/ \E r \in Procs :
       \/ RaceCartBegin(r)
       \/ RaceAddRead(r)
       \/ RaceUpdateRead(r)
       \/ RaceCartSave(r)

SpecCartRace == InitCart /\ [][NextCartRace]_vars

\* orders are placed, and verifyPayment requests interleave at their awaits
NextVerifyRace ==
  \/ CreateOrderBegin
  \/ CreateOrderItem
  \/ CreateOrderFinish
  \/ \E r \in Procs :
       \/ RaceVerifyBegin(r)
       \/ RaceVerifyOrder(r)
       \/ RaceVerifyFind(r)
       \/ RaceVerifyCreate(r)
       \/ RaceVerifySave(r)
       \/ RaceVerifyFail(r)

InitVerifyRace ==
  /\ Init
  /\ stock = [p \in Products |-> MaxStock]
  /\ vstock = [k \in VariantKeys |-> 1]

SpecVerifyRace == InitVerifyRace /\ [][NextVerifyRace]_vars

\* the clock and the pricing fields of p2 over which the price resolver is run
MaxTime == 2
PriceCatalogs ==
  {[InitialCatalog EXCEPT !["p2"].discountPercentage = pct,
                          !["p2"].discountStartDate = from,
                          !["p2"].discountEndDate = to,
                          !["p2"].wholesalePrice = wholesale] :
     pct \in {0, 15}, from \in {NoDate, 1}, to \in {NoDate, 1}, wholesale \in {0, 12000}}

InitPrice ==
  /\ now \in 0..MaxTime
  /\ live = Products
  /\ catalog \in PriceCatalogs
  /\ usedCount = [code \in CouponCodes |-> 0]
  /\ stock = [p \in Products |-> IF p = "p2" THEN MaxStock ELSE 0]
  /\ vstock = [k \in VariantKeys |-> 1]
  /\ orders = <<>>
  /\ payments = <<>>
  /\ carts = <<>>
  /\ nextLineId = 1
  /\ mails = [k \in 1..MaxOrders |-> 0]
  /\ audit = <<>>
  /\ inflight = Idle
  /\ calls = 0
  /\ last = NoRequest
  /\ db = NotStarted
  /\ procs = [r \in Procs |-> IdleProc]

\* the cart path and the order path of the price
SpecPrice == InitPrice /\ [][NextCheckout]_vars

\* the shop after u1 has ordered one copy of p2 twice
PlacedOrder ==
  LET unitPrice == getCurrentPrice("p2", Role("u1"), 0)
  IN NewOrder([user |-> "u1",
               items |-> <<[product |-> "p2", name |-> InitialCatalog["p2"].name,
                            quantity |-> 1, price |-> unitPrice,
                            selectedSize |-> NoSize, selectedColor |-> NoColor]>>,
               subtotal |-> unitPrice,
               totalShipping |-> getShippingCost("p2", Role("u1"))])

InitLedger ==
  /\ now = 0
  /\ live = Products
  /\ catalog = InitialCatalog
  /\ usedCount = [code \in CouponCodes |-> 0]
  /\ stock = [p \in Products |-> IF p = "p2" THEN MaxStock - 2 ELSE MaxStock]
  /\ vstock = [k \in VariantKeys |-> 1]
  /\ orders = <<PlacedOrder, PlacedOrder>>
  /\ payments = <<>>
  /\ carts = <<>>
  /\ nextLineId = 1
  /\ mails = [k \in 1..MaxOrders |-> 0]
  /\ audit = [o \in 1..2 |->
               [stockBefore |-> [p \in Products |->
                                   IF p = "p2" THEN MaxStock + 1 - o ELSE MaxStock],
                vstockBefore |-> [k \in VariantKeys |-> 1],
                clean |-> FALSE, restores |-> 0, fromCart |-> FALSE]]
  /\ inflight = Idle
  /\ calls = 0
  /\ last = NoRequest
  /\ db = NotStarted
  /\ procs = [r \in Procs |-> IdleProc]

\* paying, confirming, cancelling and moving two orders that exist
NextLedger ==
  \/ VerifyPayment
  \/ InitiateCoD
  \/ CancelOrder
  \/ UpdateOrderStatus

SpecLedger == InitLedger /\ [][NextLedger]_vars

\* the order and payment routes that ask for a token only, no admin role
NextUser ==
  \/ CreateOrderBegin
  \/ CreateOrderItem
  \/ CreateOrderFinish
  \/ CancelOrder
  \/ VerifyPayment
  \/ InitiateCoD

SpecUser == Init /\ [][NextUser]_vars

\* ordering with coupon codes, and asking for a coupon's discount
NextCoupon ==
  \/ CreateOrderBegin
  \/ CreateOrderItem
  \/ CreateOrderFinish
  \/ ValidateCoupon

SpecCoupon == InitCart /\ [][NextCoupon]_vars

\* ordering while the admin edits and deletes products
NextCatalog ==
  \/ CreateOrderBegin
  \/ CreateOrderItem
  \/ CreateOrderFinish
  \/ CancelOrder
  \/ UpdateProduct
  \/ DeleteProduct

SpecCatalog == InitCart /\ [][NextCatalog]_vars

(* ================================ properties ========================== *)
\* the request of the last response carried a valid signature for an order that exists
ValidVerify(r) ==
  /\ r.op = "verifyPayment"
  /\ r.order \in 1..Len(orders)
  /\ r.verify.razorpay_signature =
       Hmac(KeySecret, SignedBody(r.verify.razorpay_order_id, r.verify.razorpay_payment_id))

\* C1: over addToCart and createOrder requests the stock of every product stays
\* at or above zero, and an order item that asks for more than the product's
\* stock is rejected with the insufficient-stock error, the product's stock
\* staying as it was.
C1_StockNeverNegative ==
  /\ [](\A p \in Products : stock[p] >= 0)
  /\ [][(/\ inflight.active
         /\ last'.op = "createOrder"
         /\ last'.item.product \in Products
         /\ last'.item.quantity > stock[last'.item.product])
        => (/\ last'.code = 400
            /\ last'.err = "InsufficientStock"
            /\ stock'[last'.item.product] = stock[last'.item.product]
            /\ orders' = orders)]_vars

\* an order took the whole stock of p2, and the next order's item for p2 was rejected
C1_Witness ==
  /\ last.op = "createOrder"
  /\ last.err = "InsufficientStock"
  /\ last.item.product = "p2"
  /\ stock["p2"] = 0
  /\ Len(orders) >= 1

\* C2: after verifyPayment with a valid signature, first call or repeat, the
\* ledger holds exactly one entry whose transactionId is the payment id, the
\* call succeeded and the order's paymentStatus is completed.
C2_VerifyTwiceOneEntry ==
  ValidVerify(last) =>
    /\ last.code = 200
    /\ Cardinality({k \in 1..Len(payments) :
                      payments[k].transactionId = last.verify.razorpay_payment_id}) = 1
    /\ orders[last.order].paymentStatus = "completed"

\* three requests: the order was created and the same valid verification came twice
C2_Witness ==
  /\ ValidVerify(last)
  /\ calls = 3
  /\ Len(orders) = 1
  /\ mails[1] = 2
  /\ Len(payments) = 1
  /\ payments[1].transactionId = last.verify.razorpay_payment_id
  /\ payments[1].order = last.order

\* C3: sendPaymentConfirmed is called at most once per order.
C3_ConfirmationAtMostOnce == \A o \in 1..MaxOrders : mails[o] <= 1

\* C4: a verifyPayment whose signature is not the expected digest leaves the
\* order as it was, appends exactly one ledger entry, which is failed, and
\* answers with the verification error.
C4_InvalidSignatureRejected ==
  [][(/\ calls' = calls + 1
      /\ last'.op = "verifyPayment"
      /\ last'.order \in 1..Len(orders)
      /\ last'.verify.razorpay_signature #
           Hmac(KeySecret, SignedBody(last'.verify.razorpay_order_id,
                                      last'.verify.razorpay_payment_id)))
     => (/\ orders'[last'.order].paymentStatus = orders[last'.order].paymentStatus
         /\ orders'[last'.order].status = orders[last'.order].status
         /\ orders'[last'.order].paymentDetails = orders[last'.order].paymentDetails
         /\ Len(payments') = Len(payments) + 1
         /\ SubSeq(payments', 1, Len(payments)) = payments
         /\ payments'[Len(payments')].paymentStatus = "failed"
         /\ payments'[Len(payments')].order = last'.order
         /\ last'.code = 400
         /\ last'.err = "InvalidSignature")]_vars

\* the same forged verification came twice: two failed entries for one payment id
C4_Witness ==
  /\ last.op = "verifyPayment"
  /\ last.err = "InvalidSignature"
  /\ Len(payments) = 2
  /\ \A k \in 1..2 :
       /\ payments[k].paymentStatus = "failed"
       /\ payments[k].order = last.order
       /\ payments[k].razorpayDetails.paymentId = last.verify.razorpay_payment_id
       /\ payments[k].razorpayDetails.signature = last.verify.razorpay_signature
  /\ orders[last.order].paymentStatus = "pending"

\* C5: the first cancellation of an order, with no other stock write since the
\* order was created, puts the stock of every ordered product back to what it
\* was before createOrder.
C5_CancelRestoresStock ==
  [][(/\ calls' = calls + 1
      /\ last'.op = "cancelOrder"
      /\ last'.code = 200
      /\ audit[last'.order].clean
      /\ audit[last'.order].restores = 0)
     => \A k \in 1..Len(orders[last'.order].items) :
          LET p == orders[last'.order].items[k].product
          IN stock'[p] = audit[last'.order].stockBefore[p]]_vars

\* an order that took stock was cancelled once, nothing else having written stock
C5_Witness ==
  /\ last.op = "cancelOrder"
  /\ last.code = 200
  /\ audit[last.order].clean
  /\ audit[last.order].restores = 1
  /\ orders[last.order].status = "cancelled"
  /\ \E k \in 1..Len(orders[last.order].items) :
       stock[orders[last.order].items[k].product] >= orders[last.order].items[k].quantity

\* C6: cancelOrder on a shipped, delivered, cancelled or refunded order is
\* rejected and changes neither the orders nor product stock nor variant stock.
C6_ClosedOrderNotCancelled ==
  [][(/\ calls' = calls + 1
      /\ last'.op = "cancelOrder"
      /\ last'.order \in 1..Len(orders)
      /\ orders[last'.order].status \in {"shipped", "delivered", "cancelled", "refunded"})
     => (/\ last'.code >= 400
         /\ orders' = orders
         /\ stock' = stock
         /\ vstock' = vstock)]_vars

\* the owner's cancellation of a shipped order was refused
C6_Witness ==
  /\ last.op = "cancelOrder"
  /\ last.code = 400
  /\ last.err = "CannotCancel"
  /\ orders[last.order].status = "shipped"
  /\ orders[last.order].user = last.user

\* C7: an order whose paymentStatus is completed keeps it through every step.
C7_CompletedStays ==
  [][\A o \in 1..Len(orders) :
       orders[o].paymentStatus = "completed" => orders'[o].paymentStatus = "completed"]_vars

\* a paid order went through a later status update and is still completed
C7_Witness ==
  /\ last.op = "updateOrderStatus"
  /\ last.code = 200
  /\ last.status = "pending"
  /\ orders[last.order].paymentStatus = "completed"

\* C8: a delivered order has paymentStatus completed.
C8_DeliveredIsPaid ==
  \A o \in 1..Len(orders) :
    orders[o].status = "delivered" => orders[o].paymentStatus = "completed"

\* an order that no payment was verified for has been marked delivered
C8_Witness ==
  \E o \in 1..Len(orders) :
    /\ orders[o].status = "delivered"
    /\ orders[o].paymentDetails = NoPaymentDetails
    /\ last.op = "updateOrderStatus"
    /\ last.order = o

\* C9: every step that changes an order's status appends one statusHistory
\* entry carrying the new status, so the last entry of an order that is no
\* longer pending has the order's status.
C9_StatusChangeRecorded ==
  \A o \in 1..Len(orders) :
    orders[o].status # "pending" =>
      /\ orders[o].statusHistory # <<>>
      /\ orders[o].statusHistory[Len(orders[o].statusHistory)].status = orders[o].status

\* C10: a stored cart has totalAmount = round2(sum of price * quantity + sum
\* of the lines' shippingAmount), totalItems = sum of quantity, totalTax = 0.
C10_CartTotals ==
  \A u \in DOMAIN carts :
    LET cart == carts[u] IN
    /\ cart.totalAmount =
         Round2(SumSeq([k \in 1..Len(cart.items) |->
                          cart.items[k].price * cart.items[k].quantity])
                  + SumSeq([k \in 1..Len(cart.items) |-> cart.items[k].shippingAmount]))
    /\ cart.totalItems = SumSeq([k \in 1..Len(cart.items) |-> cart.items[k].quantity])
    /\ cart.totalTax = 0

\* the quantity of product p over the items of an order
RECURSIVE OrderedQuantity(_, _)
OrderedQuantity(items, p) ==
  IF items = <<>> THEN 0
  ELSE (IF Head(items).product = p THEN Head(items).quantity ELSE 0)
         + OrderedQuantity(Tail(items), p)

C12_OrderItemsFrozen ==
  [][\A o \in 1..Len(orders) : orders'[o].items = orders[o].items]_vars

\* an ordered product was renamed or repriced or deleted after the order, and
\* the order's line still shows what it was sold as
C12_Witness ==
  \E o \in 1..Len(orders) : \E k \in 1..Len(orders[o].items) :
    LET line == orders[o].items[k] IN
    /\ last.op \in {"updateProduct", "deleteProduct"}
    /\ last.code = 200
    /\ last.item.product = line.product
    /\ \/ line.product \notin live
       \/ line.name # catalog[line.product].name
       \/ line.price # catalog[line.product].price
    /\ line.name = InitialCatalog[line.product].name

\* the lines of a cart that hold the given product in the given size and
\* colour, a request without size or colour standing for the default line
TargetLines(cart, item) ==
  {k \in 1..Len(cart.items) :
     /\ cart.items[k].product = item.product
     /\ cart.items[k].selectedSize = OrElse(item.selectedSize, "Free Size")
     /\ cart.items[k].selectedColor = OrElse(item.selectedColor, "Standard")}

\* the quantity the cart already holds on those lines
RECURSIVE QuantityOn(_, _)
QuantityOn(cart, ks) ==
  IF ks = {} THEN 0
  ELSE LET k == CHOOSE j \in ks : TRUE
       IN cart.items[k].quantity + QuantityOn(cart, ks \ {k})

\* C13: an addToCart that asks for more than the stock leaves, counting what
\* the cart already holds of the same product, size and colour (the default
\* line when the request names neither), is rejected with the
\* insufficient-stock error and the user's cart stays as it was.
C13_AddToCartStockChecked ==
  [][(/\ calls' = calls + 1
      /\ last'.op = "addToCart"
      /\ last'.item.quantity >= 1
      /\ last'.item.product \in live
      /\ stock[last'.item.product] <
           QuantityOn(CartOf(last'.user), TargetLines(CartOf(last'.user), last'.item))
             + last'.item.quantity)
     => (/\ last'.code = 400
         /\ last'.err = "InsufficientStock"
         /\ (IF last'.user \in DOMAIN carts' THEN carts'[last'.user] ELSE EmptyCart)
              = CartOf(last'.user))]_vars

\* C14: a cart holds at most one line per (product, selectedSize,
\* selectedColor): addToCart and mergeCart sum an incoming line into the line
\* it matches, the default 'Free Size' / 'Standard' line included.
C14_OneLinePerVariant ==
  \A u \in DOMAIN carts :
    \A j, k \in 1..Len(carts[u].items) :
      (/\ carts[u].items[j].product = carts[u].items[k].product
       /\ carts[u].items[j].selectedSize = carts[u].items[k].selectedSize
       /\ carts[u].items[j].selectedColor = carts[u].items[k].selectedColor)
      => j = k

\* C15: a reseller gets no coupon discount: an order a reseller creates has
\* couponDiscount 0 and leaves every usedCount as it was, whatever couponCode
\* came with the request, and validateCoupon hands a reseller no discount
\* amount.
C15_ResellerNoCoupon ==
  [][/\ (/\ inflight.active
         /\ Role(inflight.user) = "reseller"
         /\ last'.op = "createOrder")
        => (/\ usedCount' = usedCount
            /\ last'.code = 201 => orders'[last'.order].couponDiscount = 0)
     /\ (/\ calls' = calls + 1
         /\ last'.op = "validateCoupon"
         /\ Role(last'.user) = "reseller")
        => (last'.code # 200 /\ last'.discountAmount = 0)]_vars

\* the last request was a validateCoupon for a valid, unexpired coupon of scope
\* 'specific' that lists none of the products of the submitted cart items
InapplicableCoupon(r) ==
  LET code == ToUpperCase(r.coupon.code) IN
  /\ r.op = "validateCoupon"
  /\ code \in CouponCodes
  /\ isValid(code, now)
  /\ CouponScope(code) = "specific"
  /\ \A k \in 1..Len(r.coupon.cartItems) :
       r.coupon.cartItems[k].product \notin ApplicableProducts(code)

\* C16 as claimed: such a request ends with the coupon-not-applicable error.
C16_InapplicableCouponError ==
  InapplicableCoupon(last) => (last.code = 400 /\ last.err = "CouponNotApplicable")

\* C16: such a request never succeeds and never carries a discount amount: it
\* ends with the coupon-not-applicable error when cartTotal reaches the
\* coupon's minOrderValue, and with the minimum-order error when it does not.
C16_InapplicableCouponRejected ==
  InapplicableCoupon(last) =>
    /\ last.code = 400
    /\ last.discountAmount = 0
    /\ last.err = IF last.coupon.cartTotal < MinOrderValue(ToUpperCase(last.coupon.code))
                  THEN "MinOrderValue" ELSE "CouponNotApplicable"

\* the coupon for p1 was tried on a cart that holds p2 only, with a cart total
\* above the coupon's minimum
C16_Witness ==
  /\ InapplicableCoupon(last)
  /\ last.coupon.code = "ONLYP1"
  /\ last.coupon.cartTotal >= MinOrderValue("ONLYP1")
  /\ last.coupon.cartItems[1].product = "p2"
  /\ last.err = "CouponNotApplicable"

\* C17: connectDB makes at most three attempts; an attempt after the first
\* starts only when the five seconds of the timer that the failure before it
\* set have run down; a connected state is left no more; the process exits,
\* with code 1, only after the third failure; and connectDB always ends
\* connected or exited.
C17_ConnectRetriesBounded ==
  /\ [](db.attempts <= 3)
  /\ [](db.phase = "exited" => (db.attempts = 3 /\ db.exitCode = 1))
  /\ [][db'.attempts # db.attempts =>
          \/ db.phase = "idle" /\ db'.attempts = 1
          \/ /\ db.phase = "waiting"
             /\ db.timer = 0
             /\ db'.attempts = db.attempts + 1]_vars
  /\ [][(db.phase = "connecting" /\ db'.phase = "waiting") => db'.timer = 5]_vars
  /\ [][db.phase \in {"connected", "exited"} => db' = db]_vars
  /\ <>(db.phase \in {"connected", "exited"})

\* three attempts failed, each retry five seconds after the failure, and the
\* process has exited with code 1
C17_Witness ==
  /\ db.phase = "exited"
  /\ db.attempts = 3
  /\ db.exitCode = 1
  /\ db.elapsed >= 10

\* C18: a createOrder that has read a product checks and deducts on the value
\* it read: its save writes that value less its quantity whatever the stock
\* has become since, so two requests that read the same stock both pass the
\* check and both deduct.
C18_ConcurrentOrdersOversell ==
  [][\A r \in Procs :
       (procs[r].op = "createOrder" /\ procs[r].pc = "check" /\ procs'[r].pc = "create")
       => /\ procs[r].stockRead >= procs[r].item.quantity
          /\ stock'[procs[r].item.product] = procs[r].stockRead - procs[r].item.quantity]_vars

\* two orders for the same product were created from the same stock value,
\* and their quantities add up to more than that stock
C18_Witness ==
  \E r, q \in Procs :
    /\ r # q
    /\ procs[r].pc = "done" /\ procs[r].code = 201
    /\ procs[q].pc = "done" /\ procs[q].code = 201
    /\ procs[r].item.product = procs[q].item.product
    /\ procs[r].stockRead = procs[q].stockRead
    /\ procs[r].item.quantity + procs[q].item.quantity > procs[r].stockRead
    /\ Len(orders) = 2
    /\ orders[1].items[1].quantity + orders[2].items[1].quantity > procs[r].stockRead

\* two verifyPayment requests for the same existing order with the same payment
\* id and its valid signature
SameValidVerify(r, q) ==
  /\ r # q
  /\ procs[r].op = "verifyPayment" /\ procs[q].op = "verifyPayment"
  /\ procs[r].verify = procs[q].verify
  /\ procs[r].order = procs[q].order
  /\ procs[r].order \in 1..Len(orders)
  /\ procs[r].verify.razorpay_signature =
       Hmac(KeySecret, SignedBody(procs[r].verify.razorpay_order_id,
                                  procs[r].verify.razorpay_payment_id))

\* C19: however verifyPayment requests interleave between Payment.findOne and
\* Payment.create, no two ledger entries carry the same transactionId, and once
\* two requests with the same valid payment id for an order have both finished
\* the order's paymentStatus is 'completed'.
C19_ConcurrentVerifyOneEntry ==
  /\ \A i, j \in 1..Len(payments) :
       (i # j /\ payments[i].transactionId # Null)
       => payments[i].transactionId # payments[j].transactionId
  /\ \A r, q \in Procs :
       (SameValidVerify(r, q) /\ procs[r].pc = "done" /\ procs[q].pc = "done"
        /\ procs[r].code # 404 /\ procs[q].code # 404)
       => orders[procs[r].order].paymentStatus = "completed"

\* both requests found no entry, one created it, the other was stopped by the
\* unique index, and both have finished
C19_Witness ==
  \E r, q \in Procs :
    /\ SameValidVerify(r, q)
    /\ procs[r].pc = "done" /\ procs[q].pc = "done"
    /\ ~procs[r].found /\ ~procs[q].found
    /\ procs[r].code = 200 /\ procs[q].code = 500
    /\ Cardinality({k \in 1..Len(payments) :
                      payments[k].transactionId = procs[r].verify.razorpay_payment_id}) = 1
    /\ orders[procs[r].order].paymentStatus = "completed"

\* C20: when createOrder stops at an item whose product is missing or short of
\* stock, no order is created, the failing round writes no stock, and every
\* product of the items before it keeps the deductions already saved: its
\* stock is lower than when the request began, by the quantities of those items.
C20_PartialDeductionsStay ==
  [][(/\ inflight.active
      /\ ~inflight'.active
      /\ last'.op = "createOrder"
      /\ last'.err \in {"ProductNotFound", "InsufficientStock"})
     => /\ last'.code \in {404, 400}
        /\ orders' = orders
        /\ stock' = stock
        /\ vstock' = vstock
        /\ \A k \in 1..Len(inflight.items) :
             stock'[inflight.items[k].product]
               < inflight.stockAtStart[inflight.items[k].product]
        /\ \A p \in Products :
             stock'[p] = inflight.stockAtStart[p] - OrderedQuantity(inflight.items, p)]_vars

\* the only request so far took p2 for its first item and failed on p1: p2 is
\* short of what it had and no order exists
C20_Witness ==
  /\ calls = 1
  /\ ~inflight.active
  /\ last.op = "createOrder"
  /\ last.err \in {"ProductNotFound", "InsufficientStock"}
  /\ last.item.product = "p1"
  /\ stock["p2"] < MaxStock
  /\ orders = <<>>

\* C21: the first cancellation of an order, with no other stock write since the
\* order was created, puts the stock of every variant picked by an item's
\* selectedColor back to what it was before createOrder.
C21_VariantStockRoundTrip ==
  [][(/\ calls' = calls + 1
      /\ last'.op = "cancelOrder"
      /\ last'.code = 200
      /\ audit[last'.order].clean
      /\ audit[last'.order].restores = 0)
     => \A k \in 1..Len(orders[last'.order].items) :
          LET item == orders[last'.order].items[k]
              key == <<item.product, item.selectedColor>>
          IN key \in DOMAIN vstock
             => vstock'[key] = audit[last'.order].vstockBefore[key]]_vars

\* C22: a cart mutation that writes the items array saves the array of its own
\* copy of the cart, whatever another request has stored since that copy was
\* read, so a change saved in between by a request that reported success is
\* gone from the stored cart.
C22_CartLostUpdate ==
  [][\A r \in Procs :
       (/\ procs[r].op \in CartRaceOps
        /\ procs[r].pc = "save"
        /\ procs[r].arrayWrite
        /\ procs'[r].pc = "done"
        /\ procs'[r].code = 200)
       => carts'[procs[r].user].items
            = recalculateCart(procs[r].doc, Role(procs[r].user)).items]_vars

\* updateCartItem and addToCart both answered 200 for the same cart, and the
\* line that updateCartItem set to a new quantity holds another quantity
C22_Witness ==
  \E r, q \in Procs :
    /\ procs[r].op = "updateCartItem" /\ procs[q].op = "addToCart"
    /\ procs[r].pc = "done" /\ procs[q].pc = "done"
    /\ procs[r].code = 200 /\ procs[q].code = 200
    /\ procs[r].user = procs[q].user
    /\ procs[q].arrayWrite
    /\ procs[r].read = procs[q].read
    /\ calls = 3
    /\ \E k \in 1..Len(procs[r].doc.items) :
         /\ procs[r].doc.items[k].quantity # procs[r].read.items[k].quantity
         /\ carts[procs[r].user].items[k].quantity = procs[r].read.items[k].quantity

\* C23: updateOrderStatus on an existing order with a status of the enum
\* answers 200 and sets the order's status to it, whatever the status was.
C23_AnyTransitionAccepted ==
  [][(/\ calls' = calls + 1
      /\ last'.op = "updateOrderStatus"
      /\ last'.order \in 1..Len(orders)
      /\ last'.status \in StatusEnum)
     => /\ last'.code = 200
        /\ orders'[last'.order].status = last'.status]_vars

\* a delivered order was set back to pending
C23_Witness ==
  /\ last.op = "updateOrderStatus"
  /\ last.code = 200
  /\ last.status = "pending"
  /\ LET h == orders[last.order].statusHistory
     IN /\ Len(h) >= 2
        /\ h[Len(h) - 1].status = "delivered"
        /\ h[Len(h)].status = "pending"
  /\ orders[last.order].status = "pending"

\* the price after the discount, rounded to the paisa
DiscountedPrice(p) == ((Price(p) * (100 - DiscountPercentage(p)) + 500) \div 1000) * 10

\* the discount window of the claim: a percentage above 0 and the clock between
\* the two dates, a date that is not set leaving its side open
InWindow(p, t) ==
  /\ DiscountPercentage(p) > 0
  /\ (DiscountStartDate(p) = NoDate \/ DiscountStartDate(p) <= t)
  /\ (DiscountEndDate(p) = NoDate \/ t <= DiscountEndDate(p))

\* C24: a caller who is no reseller gets the discounted price exactly inside
\* the discount window and the base price outside it; a reseller gets the
\* wholesale price when it is above 0 and the base price otherwise; the cart
\* and the order resolve the same price, and it is the price that addToCart
\* stores on the line and createOrder on the order item.
C24_UnitPriceResolved ==
  /\ [](\A p \in Products :
         /\ \A userRole \in {"user", "admin"} :
              getCurrentPrice(p, userRole, now)
                = IF InWindow(p, now) THEN DiscountedPrice(p) ELSE Price(p)
         /\ getCurrentPrice(p, "reseller", now)
              = IF WholesalePrice(p) > 0 THEN WholesalePrice(p) ELSE Price(p)
         /\ \A userRole \in {"user", "admin", "reseller"} :
              CartUnitPrice(p, userRole) = getCurrentPrice(p, userRole, now))
  /\ [][(last'.op = "addToCart" /\ last'.code = 200 /\ calls' = calls + 1)
        => \E k \in 1..Len(carts'[last'.user].items) :
             /\ carts'[last'.user].items[k].product = last'.item.product
             /\ carts'[last'.user].items[k].price
                  = getCurrentPrice(last'.item.product, Role(last'.user), now)]_vars
  /\ [][(inflight.active /\ inflight'.active
         /\ Len(inflight'.items) = Len(inflight.items) + 1)
        => LET line == inflight'.items[Len(inflight'.items)]
           IN line.price = getCurrentPrice(line.product, Role(inflight.user), now)]_vars

\* a retail user ordered p2 on the last day of its discount at the discounted
\* price, having added it to the cart at that price
C24_Witness ==
  /\ now = 1
  /\ catalog["p2"].discountEndDate = 1
  /\ catalog["p2"].discountPercentage = 15
  /\ Len(orders) = 1
  /\ Role(orders[1].user) = "user"
  /\ orders[1].items[1].product = "p2"
  /\ orders[1].items[1].price = 16990
  /\ orders[1].items[1].price < Price("p2")
  /\ audit[1].fromCart

\* C25: the promise that connectDB returned has settled only when the
\* connection is established or the process has exited.
C25_SettlesWhenConnected ==
  db.settled => db.phase \in {"connected", "exited"}

\* C26: when a payment id with its valid signature has marked an order as paid,
\* a verifyPayment call with the same payment id and signature for another
\* order does not mark that order as paid.
C26_OnePaymentOneOrder ==
  [][(/\ calls' = calls + 1
      /\ ValidVerify(last')
      /\ orders[last'.order].paymentStatus # "completed"
      /\ \E a \in 1..Len(orders) :
           /\ a # last'.order
           /\ orders[a].paymentStatus = "completed"
           /\ orders[a].paymentDetails.razorpayPaymentId = last'.verify.razorpay_payment_id
           /\ orders[a].paymentDetails.razorpaySignature = last'.verify.razorpay_signature)
     => orders'[last'.order].paymentStatus # "completed"]_vars

\* C27: with no stock edit by the admin, cancelOrder adds the quantities of an
\* order back at most once, and no product's stock exceeds what it was before
\* the orders were placed.
C27_RestoredAtMostOnce ==
  /\ \A o \in 1..Len(orders) : audit[o].restores <= 1
  /\ \A p \in Products : stock[p] <= MaxStock

\* C28: verifyPayment with a valid signature for an order that is shipped,
\* delivered, cancelled or refunded leaves the order's status as it is.
C28_VerifyKeepsClosedStatus ==
  [][(/\ calls' = calls + 1
      /\ ValidVerify(last')
      /\ orders[last'.order].status \in ClosedStatuses)
     => orders'[last'.order].status = orders[last'.order].status]_vars

\* C29: through the operations open to every user, an order whose status is
\* confirmed or processing has paymentStatus 'completed'.
C29_ConfirmedIsPaid ==
  \A o \in 1..Len(orders) :
    orders[o].status \in {"confirmed", "processing"} => orders[o].paymentStatus = "completed"

\* C30: a cancelOrder that ends with an error leaves the order's status and
\* every product's stock as they were; one that ends with success has added
\* the quantity of every item back to its product.
C30_CancelAllOrNothing ==
  [][(/\ calls' = calls + 1
      /\ last'.op = "cancelOrder"
      /\ last'.order \in 1..Len(orders))
     => IF last'.code = 200
        THEN \A p \in Products :
               stock'[p] = stock[p] + OrderedQuantity(orders[last'.order].items, p)
        ELSE /\ orders'[last'.order].status = orders[last'.order].status
             /\ stock' = stock
             /\ vstock' = vstock]_vars
====
